---- MODULE Spec2Model ----
(***************************************************************************)
(* A model of Deployment.py: a Discord bot that keeps time-boxed events    *)
(* in the sqlite table schedule(id, server_name, time_slot, participants,  *)
(* channel_id, message_id), lets users join / delay / leave through        *)
(* buttons, clears a roster when the event ends and every midnight, and    *)
(* mirrors each row into one Discord message.                              *)
(*                                                                         *)
(* Python strings are sequences of one-character strings, so that          *)
(* str.split, str.join and the `in` substring test are modelled by what    *)
(* they compute on the flat participants column.                           *)
(***************************************************************************)
EXTENDS Integers, Sequences, FiniteSets, TLC

(***************************************************************************)
(* Python string primitives                                                *)
(***************************************************************************)

\* s[i .. i+Len(t)-1] = t
MatchAt(s, t, i) ==
    /\ i >= 1
    /\ i + Len(t) - 1 <= Len(s)
    /\ \A k \in 1..Len(t) : s[i + k - 1] = t[k]

\* Python `t in s` for strings
Contains(s, t) == \E i \in 1..(Len(s) + 1) : MatchAt(s, t, i)

\* Python s.split(sep): left to right, non-overlapping, keeps empty pieces
RECURSIVE SplitFrom(_, _, _, _, _)
SplitFrom(s, sep, i, start, acc) ==
    IF i + Len(sep) - 1 > Len(s)
    THEN Append(acc, SubSeq(s, start, Len(s)))
    ELSE IF MatchAt(s, sep, i)
         THEN SplitFrom(s, sep, i + Len(sep), i + Len(sep),
                        Append(acc, SubSeq(s, start, i - 1)))
         ELSE SplitFrom(s, sep, i + 1, start, acc)

Split(s, sep) == SplitFrom(s, sep, 1, 1, <<>>)

\* Python s.split(sep, maxsplit)
RECURSIVE SplitMaxFrom(_, _, _, _, _, _)
SplitMaxFrom(s, sep, n, i, start, acc) ==
    IF n = 0 \/ i + Len(sep) - 1 > Len(s)
    THEN Append(acc, SubSeq(s, start, Len(s)))
    ELSE IF MatchAt(s, sep, i)
         THEN SplitMaxFrom(s, sep, n - 1, i + Len(sep), i + Len(sep),
                           Append(acc, SubSeq(s, start, i - 1)))
         ELSE SplitMaxFrom(s, sep, n, i + 1, start, acc)

SplitMax(s, sep, n) == SplitMaxFrom(s, sep, n, 1, 1, <<>>)

\* Python sep.join(list)
RECURSIVE JoinWith(_, _)
JoinWith(list, sep) ==
    IF list = <<>> THEN <<>>
    ELSE IF Len(list) = 1 THEN list[1]
    ELSE list[1] \o sep \o JoinWith(Tail(list), sep)

Colon == <<":">>
CommaSpace == <<",", " ">>

DigitChars == {"0", "1", "2", "3", "4", "5", "6", "7", "8", "9"}

DigitVal(c) ==
    CASE c = "0" -> 0 [] c = "1" -> 1 [] c = "2" -> 2 [] c = "3" -> 3
      [] c = "4" -> 4 [] c = "5" -> 5 [] c = "6" -> 6 [] c = "7" -> 7
      [] c = "8" -> 8 [] c = "9" -> 9

\* Python str.isdigit() on the characters of the model's alphabet
IsDigit(s) == Len(s) > 0 /\ \A k \in 1..Len(s) : s[k] \in DigitChars

\* Python str.strip() of blanks
RECURSIVE Strip(_)
Strip(s) ==
    IF s = <<>> THEN s
    ELSE IF Head(s) = " " THEN Strip(Tail(s))
    ELSE IF s[Len(s)] = " " THEN Strip(SubSeq(s, 1, Len(s) - 1))
    ELSE s

\* int(s) returns (it strips blanks first); otherwise it raises ValueError
IntOk(s) == IsDigit(Strip(s))

RECURSIVE DigitsValue(_)
DigitsValue(s) ==
    IF s = <<>> THEN 0
    ELSE 10 * DigitsValue(SubSeq(s, 1, Len(s) - 1)) + DigitVal(s[Len(s)])

IntOf(s) == DigitsValue(Strip(s))

\* f"{n}" for the values (current_delay + 1) % 3 can take
StrOfTier(n) == CASE n = 0 -> <<"0">> [] n = 1 -> <<"1">> [] n = 2 -> <<"2">>

(***************************************************************************)
(* Time: instants are minutes of local wall-clock time (USER_TIMEZONE)     *)
(* since 00:00 of day 0; a time slot "HH:MM-HH:MM" is <<HH, MM, HH, MM>>.  *)
(***************************************************************************)

\* timedelta(days=1), in minutes
DayMinutes == 1440

\* the clock of the system runs moves in steps of DayMinutes \div TicksPerDay
TicksPerDay == 2

\* the clock stops at 00:00 of day MaxDay
MaxDay == 1

\* datetime.now(USER_TIMEZONE).strftime("%Y-%m-%d"): the day of an instant
DateOf(t) == t \div DayMinutes

\* strptime(f"{today} {HH:MM}:00"): the instant of a time of day on a day
AtTime(day, hh, mm) == day * DayMinutes + hh * 60 + mm

\* parse_time_slot for a well-formed slot, read at the instant clock
parse_time_slot(time_slot, clock) ==
    LET today == DateOf(clock)
        start == AtTime(today, time_slot[1], time_slot[2])
        end   == AtTime(today, time_slot[3], time_slot[4])
    IN  IF end < start THEN <<start, end + DayMinutes>> ELSE <<start, end>>

start_time(time_slot, clock) == parse_time_slot(time_slot, clock)[1]
end_time(time_slot, clock) == parse_time_slot(time_slot, clock)[2]

(***************************************************************************)
(* Users: interaction.user.id (as str) and interaction.user.display_name   *)
(***************************************************************************)

\* Users of the sequential roster runs: an id that is a substring of another
\* id, and display names that hold the separators of the stored form.  No id
\* holds a digit 0..2, so that no id is found in a stored tier.
RosterUsers ==
    { [id |-> <<"7">>,      name |-> <<"a">>],
      [id |-> <<"7", "8">>, name |-> <<"b">>],
      [id |-> <<"3">>,      name |-> <<"d", ":", "x">>],
      [id |-> <<"4">>,      name |-> <<"x", ",", " ", "4", ":", "y">>] }

(***************************************************************************)
(* Roster: the participants column and the three button computations       *)
(***************************************************************************)

\* get_participants_list on the str read from the participants column
get_participants_list(participants) ==
    IF participants = <<>> THEN <<>> ELSE Split(participants, CommaSpace)

\* any(user_id in p for p in current_participants)
UserFound(current_participants, user_id) ==
    \E i \in 1..Len(current_participants) :
        Contains(current_participants[i], user_id)

\* JoinButton.callback: the list it writes and hands to the message update
JoinParticipants(current_participants, user_id, user_name) ==
    IF ~UserFound(current_participants, user_id)
    THEN Append(current_participants, user_id \o Colon \o user_name)
    ELSE current_participants

\* LeaveButton.callback: [p for p in current_participants if user_id not in p]
LeaveParticipants(current_participants, user_id) ==
    SelectSeq(current_participants, LAMBDA p : ~Contains(p, user_id))

\* DelayButton.callback, one turn of its loop; parts = p.split(":")
DelayRaisesOn(p, user_id) ==
    LET parts == Split(p, Colon)
    IN  /\ parts[1] = user_id
        /\ \/ Len(parts) > 2 /\ ~IntOk(parts[3])     \* int(parts[2]): ValueError
           \/ Len(parts) < 2                         \* parts[1]: IndexError

DelayEntry(p, user_id) ==
    LET parts == Split(p, Colon)
    IN  IF parts[1] = user_id
        THEN LET current_delay == IF Len(parts) > 2 THEN IntOf(parts[3]) ELSE 0
                 new_delay == (current_delay + 1) % 3
             IN  parts[1] \o Colon \o parts[2] \o Colon \o StrOfTier(new_delay)
        ELSE p

\* the loop raises on the first entry it cannot rewrite; nothing is written
DelayRaises(current_participants, user_id) ==
    \E i \in 1..Len(current_participants) :
        DelayRaisesOn(current_participants[i], user_id)

\* new_participants
DelayParticipants(current_participants, user_id) ==
    [i \in 1..Len(current_participants) |->
        DelayEntry(current_participants[i], user_id)]

\* create_event_embed: the lines of the participants field; an entry whose
\* split has no second part raises inside the loop and is skipped
RenderEntry(p) ==
    LET parts == SplitMax(p, Colon, 2)
    IN  [name  |-> parts[2],
         delay |-> IF Len(parts) >= 3 /\ IsDigit(parts[3])
                   THEN IntOf(parts[3]) ELSE 0]

participants_display(participants) ==
    LET ok == SelectSeq(participants, LAMBDA p : Len(SplitMax(p, Colon, 2)) >= 2)
    IN  [i \in 1..Len(ok) |-> RenderEntry(ok[i])]

(***************************************************************************)
(* The roster as the code reads it back: identity and tier of an entry     *)
(***************************************************************************)

UserIdOf(p) == Split(p, Colon)[1]

NameOf(p) == LET parts == Split(p, Colon)
             IN  IF Len(parts) >= 2 THEN parts[2] ELSE <<>>

TierOf(p) == LET parts == Split(p, Colon)
             IN  IF Len(parts) > 2 /\ IntOk(parts[3]) THEN IntOf(parts[3]) ELSE 0

Present(roster, user_id) == \E i \in 1..Len(roster) : UserIdOf(roster[i]) = user_id

UniqueByUserId(roster) ==
    \A i, j \in 1..Len(roster) : UserIdOf(roster[i]) = UserIdOf(roster[j]) => i = j

VARIABLES
    now,                      \* datetime.now(USER_TIMEZONE)
    schedule,                 \* the table: id -> row
    sqlite_sequence,          \* AUTOINCREMENT's last id (0: no entry)
    inserts,                  \* rows ever inserted (stamps each entry)
    messages,                 \* Discord messages: id -> what is shown
    next_message,             \* messages ever sent
    tasks,                    \* coroutines in flight, by slot
    sleepers,                 \* schedule_event_end tasks in asyncio.sleep
    reset_at,                 \* next run of the schedule_reset_task loop
    message_sending_enabled,  \* the global flag
    events,                   \* commands and clicks received so far
    faults,                   \* Discord calls that failed so far
    lab,                      \* the sequential roster runs
    pt                        \* the parse runs

sysvars == <<now, schedule, sqlite_sequence, inserts, messages, next_message,
             tasks, sleepers, reset_at, message_sending_enabled, events, faults>>

vars == <<now, schedule, sqlite_sequence, inserts, messages, next_message,
          tasks, sleepers, reset_at, message_sending_enabled, events,
          faults, lab, pt>>

(***************************************************************************)
(* Sequential roster runs: one button callback at a time on one row, with  *)
(* the row present and no storage or Discord failure.  lab.stored is the   *)
(* participants column; the other fields record the last callback.         *)
(***************************************************************************)

NoUser == [id |-> <<>>, name |-> <<>>]

LabIdle ==
    [stored |-> <<>>, op |-> "none", user |-> NoUser, before |-> <<>>,
     passed |-> <<>>, wrote |-> FALSE, reconciled |-> FALSE,
     response |-> "none", streak |-> 0, base |-> <<>>]

\* JoinButton.callback run to its end
RunJoin(u) ==
    LET current_participants == get_participants_list(lab.stored)
        joined == JoinParticipants(current_participants, u.id, u.name)
    IN  /\ lab' = [stored |-> JoinWith(joined, CommaSpace), op |-> "join",
                   user |-> u, before |-> lab.stored, passed |-> joined,
                   wrote |-> TRUE, reconciled |-> TRUE, response |-> "defer",
                   streak |-> 0, base |-> <<>>]
        /\ UNCHANGED <<sysvars, pt>>

\* LeaveButton.callback run to its end
RunLeave(u) ==
    LET current_participants == get_participants_list(lab.stored)
        left == LeaveParticipants(current_participants, u.id)
    IN  /\ lab' = [stored |-> JoinWith(left, CommaSpace), op |-> "leave",
                   user |-> u, before |-> lab.stored, passed |-> left,
                   wrote |-> TRUE, reconciled |-> TRUE, response |-> "defer",
                   streak |-> 0, base |-> <<>>]
        /\ UNCHANGED <<sysvars, pt>>

\* DelayButton.callback run to its end: the error reply and return, an
\* exception out of the loop, or the write, the message update and defer()
RunDelay(u) ==
    LET current_participants == get_participants_list(lab.stored)
        new_participants == DelayParticipants(current_participants, u.id)
        again == lab.op = "delay" /\ lab.user = u /\ lab.response = "defer"
                    /\ lab.streak \in 1..2
    IN  /\ lab' =
              IF ~UserFound(current_participants, u.id)
              THEN [lab EXCEPT !.op = "delay", !.user = u, !.before = lab.stored,
                        !.passed = <<>>, !.wrote = FALSE, !.reconciled = FALSE,
                        !.response = "error", !.streak = 0, !.base = <<>>]
              ELSE IF DelayRaises(current_participants, u.id)
              THEN [lab EXCEPT !.op = "delay", !.user = u, !.before = lab.stored,
                        !.passed = <<>>, !.wrote = FALSE, !.reconciled = FALSE,
                        !.response = "raised", !.streak = 0, !.base = <<>>]
              ELSE [stored |-> JoinWith(new_participants, CommaSpace),
                    op |-> "delay", user |-> u, before |-> lab.stored,
                    passed |-> new_participants, wrote |-> TRUE,
                    reconciled |-> TRUE, response |-> "defer",
                    streak |-> IF again THEN lab.streak + 1 ELSE 1,
                    base |-> IF again THEN lab.base ELSE lab.stored]
        /\ UNCHANGED <<sysvars, pt>>

RosterNext ==
    \/ \E u \in RosterUsers : RunJoin(u)
    \/ \E u \in RosterUsers : RunLeave(u)
    \/ \E u \in RosterUsers : RunDelay(u)

\* the roster before and after the last callback, as the code reads it
LabBefore == get_participants_list(lab.before)
LabAfter == get_participants_list(lab.stored)

(***************************************************************************)
(* Parse runs: parse_time_slot on well-formed slots at sampled instants    *)
(***************************************************************************)

ParseHours == {0, 12, 23}
ParseMinutes == {0, 30, 59}

ParseSlots ==
    { <<sh, sm, eh, em>> : sh \in ParseHours, sm \in ParseMinutes,
                           eh \in ParseHours, em \in ParseMinutes }

ParseClocks ==
    { AtTime(d, h, m) : d \in 0..(MaxDay - 1), h \in ParseHours, m \in ParseMinutes }

PtIdle == [done |-> FALSE, time_slot |-> <<0, 0, 0, 0>>, clock |-> 0,
           start |-> 0, end |-> 0]

RunParse(time_slot, clock) ==
    /\ pt' = [done |-> TRUE, time_slot |-> time_slot, clock |-> clock,
              start |-> start_time(time_slot, clock),
              end |-> end_time(time_slot, clock)]
    /\ UNCHANGED <<sysvars, lab>>

ParseNext ==
    \E time_slot \in ParseSlots, clock \in ParseClocks : RunParse(time_slot, clock)

(***************************************************************************)
(* The system: commands, button clicks, timers, and the coroutines they    *)
(* start.  Each db_execute call and each Discord call is one step; the     *)
(* code between two awaits runs with the step before it.  Storage and      *)
(* Discord calls succeed, except fetch_message of a message that is gone.  *)
(***************************************************************************)

\* commands and clicks received in one run
MaxEvents == 3

\* coroutines in flight at once (sleeping timers apart)
MaxTasks == 2

\* Discord calls that fail in one run
MaxFaults == 1

TaskSlots == 1..MaxTasks
RowIds == 1..MaxEvents

\* users of the system runs: ids and names that share no substring
Users ==
    { [id |-> <<"5">>, name |-> <<"a">>],
      [id |-> <<"6">>, name |-> <<"b">>] }

ServerNames == {"Alpha"}
Channels == {1}

TickMinutes == DayMinutes \div TicksPerDay
GridTimes == { k * TickMinutes : k \in 0..(TicksPerDay - 1) }

\* "HH:MM-HH:MM" of two times of day, start and end different
SlotOf(pair) == <<pair[1] \div 60, pair[1] % 60, pair[2] \div 60, pair[2] % 60>>

Slots == { SlotOf(pair) : pair \in { q \in GridTimes \X GridTimes : q[1] # q[2] } }

NoSlot == <<0, 0, 0, 0>>

Idle ==
    [kind |-> "idle", pc |-> "", ret |-> "", row_id |-> 0, born |-> 0,
     channel |-> 0, server_name |-> "", time_slot |-> NoSlot, user |-> NoUser,
     participants |-> <<>>, message_id |-> 0, reset_flag |-> FALSE,
     todo |-> <<>>, stale |-> FALSE, cleared |-> FALSE]

InFlight == { s \in TaskSlots : tasks[s].kind # "idle" }
HasFree == InFlight # TaskSlots
FreeSlot == CHOOSE s \in TaskSlots :
                tasks[s].kind = "idle" /\ \A r \in TaskSlots : r < s => tasks[r].kind # "idle"

\* a command or a click is received and its coroutine starts
Start(t) ==
    /\ events < MaxEvents
    /\ HasFree
    /\ tasks' = [tasks EXCEPT ![FreeSlot] = t]
    /\ events' = events + 1

\* rows of a SELECT without ORDER BY: in id order
SortedIds(S) ==
    [i \in 1..Cardinality(S) |->
        CHOOSE x \in S : Cardinality({y \in S : y < x}) = i - 1]

Matching(server_name, time_slot) ==
    { id \in DOMAIN schedule :
        schedule[id].server_name = server_name /\ schedule[id].time_slot = time_slot }

Max(S) == CHOOSE x \in S : \A y \in S : y <= x
Min(S) == CHOOSE x \in S : \A y \in S : x <= y

\* the entry a row holds is still the one stamped born
EntryLive(row_id, born) ==
    row_id \in DOMAIN schedule /\ schedule[row_id].born = born

(***************************************************************************)
(* update_schedule_message                                                 *)
(***************************************************************************)

\* now >= end_time and not reset_flag: the EventEndedButton view
Ended(t) == now >= end_time(t.time_slot, now) /\ ~t.reset_flag

\* the embed and view a call shows
Shown(t) ==
    [channel |-> t.channel, row_id |-> t.row_id, server_name |-> t.server_name,
     time_slot |-> t.time_slot, participants |-> t.participants,
     ended |-> Ended(t)]

\* channel.fetch_message(int(message_id)) returns
Fetched(t) ==
    /\ t.message_id # 0
    /\ t.message_id \in DOMAIN messages
    /\ messages[t.message_id].channel = t.channel

\* the message the call is about to write: the one fetched, or a new one
PresentTarget(t) == IF Fetched(t) THEN t.message_id ELSE next_message + 1

\* the next update_schedule_message call of a show_schedule or reset loop
LoopCall(t) ==
    LET row == Head(t.todo)
    IN  [t EXCEPT !.pc = "usm_select", !.row_id = row.row_id,
                  !.server_name = row.server_name, !.time_slot = row.time_slot,
                  !.participants = row.participants, !.channel = row.channel,
                  !.message_id = 0, !.todo = Tail(t.todo)]

\* the caller after update_schedule_message returns
Continue(t) ==
    CASE t.ret = "done" -> Idle
      [] t.ret = "arm"  -> IF message_sending_enabled
                           THEN [t EXCEPT !.pc = "show_select", !.ret = "loop"]
                           ELSE Idle
      [] t.ret = "loop" -> IF t.todo = <<>> THEN Idle ELSE LoopCall(t)

\* bot.loop.create_task(schedule_event_end(...)): it sleeps until end_time
TimerOf(t) ==
    [row_id |-> t.row_id, born |-> t.born, channel_id |-> t.channel,
     server_name |-> t.server_name, time_slot |-> t.time_slot,
     wake |-> end_time(t.time_slot, now)]

\* the rosters of the rows ids are cleared: the callbacks that have read one
\* of them and not yet written hold a list from before the clear
NoteCleared(tks, ids) ==
    [s \in TaskSlots |->
        IF tks[s].kind \in {"join", "leave", "delay"} /\ tks[s].pc = "write"
              /\ tks[s].row_id \in ids
        THEN [tks[s] EXCEPT !.cleared = TRUE]
        ELSE tks[s]]

\* a JoinButton callback has run to its end
NoteJoined(sch, t) ==
    IF t.kind = "join" /\ t.row_id \in DOMAIN sch /\ sch[t.row_id].only_joins
    THEN [sch EXCEPT ![t.row_id].joined = @ \cup {t.user.id}]
    ELSE sch

\* another mutation of the roster takes part
NoteOther(sch, ids) ==
    [id \in DOMAIN sch |->
        IF id \in ids THEN [sch[id] EXCEPT !.only_joins = FALSE, !.joined = {}]
        ELSE sch[id]]

AfterUsm(s, t, sch) ==
    /\ tasks' = [tasks EXCEPT ![s] = Continue(t)]
    /\ sleepers' = IF t.ret = "arm" THEN sleepers \cup {TimerOf(t)} ELSE sleepers
    /\ schedule' = NoteJoined(sch, t)

\* SELECT message_id FROM schedule WHERE id=?
UsmSelect(s) ==
    LET t == tasks[s]
    IN  /\ t.pc = "usm_select"
        /\ tasks' = [tasks EXCEPT ![s] =
              [t EXCEPT !.pc = "usm_present",
                        !.message_id = IF t.row_id \in DOMAIN schedule
                                       THEN schedule[t.row_id].message_id ELSE 0]]
        /\ UNCHANGED <<now, schedule, sqlite_sequence, inserts, messages,
                       next_message, sleepers, reset_at,
                       message_sending_enabled, events,
                       faults, lab, pt>>

\* fetch_message and message.edit, or channel.send when there is no message
\* id or the fetch raises NotFound
UsmPresent(s) ==
    LET t == tasks[s]
    IN  /\ t.pc = "usm_present"
        /\ IF Fetched(t)
           THEN /\ messages' = [messages EXCEPT ![t.message_id] = Shown(t)]
                /\ next_message' = next_message
                /\ AfterUsm(s, t, schedule)
           ELSE /\ messages' = (next_message + 1 :> Shown(t)) @@ messages
                /\ next_message' = next_message + 1
                /\ tasks' = [tasks EXCEPT ![s] =
                      [t EXCEPT !.pc = "usm_setref", !.message_id = next_message + 1]]
                /\ UNCHANGED <<schedule, sleepers>>
        /\ UNCHANGED <<now, sqlite_sequence, inserts, reset_at,
                       message_sending_enabled, events,
                       faults, lab, pt>>

\* message.edit or channel.send raises Forbidden or HTTPException.  In the
\* try block the handlers of lines 213-216 catch it and the call returns; in
\* the NotFound handler nothing catches it, the outer handler re-raises, and
\* every caller ends there: the callbacks, add_server and
\* schedule_event_end in their handlers, show_schedule with the exception,
\* schedule_reset_task in its handler, before the rest of the loop
UsmPresentFails(s) ==
    LET t == tasks[s]
    IN  /\ t.pc = "usm_present"
        /\ faults < MaxFaults
        /\ faults' = faults + 1
        /\ IF Fetched(t) \/ t.message_id = 0
           THEN AfterUsm(s, t, schedule)
           ELSE /\ tasks' = [tasks EXCEPT ![s] = Idle]
                /\ UNCHANGED <<schedule, sleepers>>
        /\ UNCHANGED <<now, sqlite_sequence, inserts, messages, next_message,
                       reset_at, message_sending_enabled, events, lab, pt>>

\* UPDATE schedule SET message_id=? WHERE id=?
UsmSetRef(s) ==
    LET t == tasks[s]
    IN  /\ t.pc = "usm_setref"
        /\ AfterUsm(s, t,
              IF t.row_id \in DOMAIN schedule
              THEN [schedule EXCEPT ![t.row_id].message_id = t.message_id]
              ELSE schedule)
        /\ UNCHANGED <<now, sqlite_sequence, inserts, messages, next_message,
                       reset_at, message_sending_enabled, events,
                       faults, lab, pt>>

(***************************************************************************)
(* Button callbacks                                                        *)
(***************************************************************************)

\* a user presses a button of a message that shows the three buttons; the
\* button holds the row_id, server_name and time_slot it was built with
Click(m, u, kind) ==
    /\ m \in DOMAIN messages
    /\ ~messages[m].ended
    /\ Start([Idle EXCEPT !.kind = kind, !.pc = "read", !.ret = "done",
                          !.row_id = messages[m].row_id,
                          !.channel = messages[m].channel,
                          !.server_name = messages[m].server_name,
                          !.time_slot = messages[m].time_slot,
                          !.user = u])
    /\ UNCHANGED <<now, schedule, sqlite_sequence, inserts, messages,
                   next_message, sleepers, reset_at, message_sending_enabled,
                       faults, lab, pt>>

\* result[0][0] if result else "" (or []), through get_participants_list
StoredParticipants(row_id) ==
    IF row_id \in DOMAIN schedule
    THEN get_participants_list(schedule[row_id].participants)
    ELSE <<>>

\* JoinButton.callback: SELECT participants, and the list to write
JoinRead(s) ==
    LET t == tasks[s]
    IN  /\ t.kind = "join" /\ t.pc = "read"
        /\ tasks' = [tasks EXCEPT ![s] =
              [t EXCEPT !.pc = "write",
                        !.participants = JoinParticipants(StoredParticipants(t.row_id),
                                                          t.user.id, t.user.name)]]
        /\ UNCHANGED <<now, schedule, sqlite_sequence, inserts, messages,
                       next_message, sleepers, reset_at,
                       message_sending_enabled, events,
                       faults, lab, pt>>

\* LeaveButton.callback: SELECT participants, and the list to write
LeaveRead(s) ==
    LET t == tasks[s]
    IN  /\ t.kind = "leave" /\ t.pc = "read"
        /\ tasks' = [tasks EXCEPT ![s] =
              [t EXCEPT !.pc = "write",
                        !.participants = LeaveParticipants(StoredParticipants(t.row_id),
                                                           t.user.id)]]
        /\ schedule' = NoteOther(schedule, {t.row_id})
        /\ UNCHANGED <<now, sqlite_sequence, inserts, messages, next_message,
                       sleepers, reset_at, message_sending_enabled, events,
                       faults, lab, pt>>

\* DelayButton.callback: SELECT participants; the error reply and return when
\* the user is not found, an exception out of the loop, or the list to write
DelayRead(s) ==
    LET t == tasks[s]
        current_participants == StoredParticipants(t.row_id)
    IN  /\ t.kind = "delay" /\ t.pc = "read"
        /\ tasks' = [tasks EXCEPT ![s] =
              IF ~UserFound(current_participants, t.user.id)
                    \/ DelayRaises(current_participants, t.user.id)
              THEN Idle
              ELSE [t EXCEPT !.pc = "write",
                             !.participants = DelayParticipants(current_participants,
                                                                t.user.id)]]
        /\ schedule' = NoteOther(schedule, {t.row_id})
        /\ UNCHANGED <<now, sqlite_sequence, inserts, messages, next_message,
                       sleepers, reset_at, message_sending_enabled, events,
                       faults, lab, pt>>

\* UPDATE schedule SET participants=? WHERE id=?  with ", ".join(list)
CallbackWrite(s) ==
    LET t == tasks[s]
    IN  /\ t.kind \in {"join", "leave", "delay"} /\ t.pc = "write"
        /\ schedule' = IF t.row_id \in DOMAIN schedule
                       THEN [schedule EXCEPT ![t.row_id].participants =
                                JoinWith(t.participants, CommaSpace)]
                       ELSE schedule
        /\ tasks' = [tasks EXCEPT ![s] = [t EXCEPT !.pc = "usm_select"]]
        /\ UNCHANGED <<now, sqlite_sequence, inserts, messages, next_message,
                       sleepers, reset_at, message_sending_enabled, events,
                       faults, lab, pt>>

(***************************************************************************)
(* add_server                                                              *)
(***************************************************************************)

AddServer(server_name, time_slot, channel) ==
    /\ Start([Idle EXCEPT !.kind = "add", !.pc = "add_check", !.ret = "arm",
                          !.server_name = server_name, !.time_slot = time_slot,
                          !.channel = channel])
    /\ UNCHANGED <<now, schedule, sqlite_sequence, inserts, messages,
                   next_message, sleepers, reset_at, message_sending_enabled,
                       faults, lab, pt>>

\* SELECT id ... WHERE server_name=? AND time_slot=?; `if existing: return`
AddCheck(s) ==
    LET t == tasks[s]
    IN  /\ t.pc = "add_check"
        /\ tasks' = [tasks EXCEPT ![s] =
              IF Matching(t.server_name, t.time_slot) # {}
              THEN Idle
              ELSE [t EXCEPT !.pc = "add_insert"]]
        /\ UNCHANGED <<now, schedule, sqlite_sequence, inserts, messages,
                       next_message, sleepers, reset_at,
                       message_sending_enabled, events,
                       faults, lab, pt>>

\* INSERT INTO schedule ...: AUTOINCREMENT gives the id after the largest of
\* the ids in the table and the sqlite_sequence entry
AddInsert(s) ==
    LET t == tasks[s]
        id == Max(DOMAIN schedule \cup {sqlite_sequence}) + 1
    IN  /\ t.pc = "add_insert"
        /\ schedule' = (id :> [server_name |-> t.server_name,
                               time_slot |-> t.time_slot,
                               participants |-> <<>>,
                               channel_id |-> t.channel,
                               message_id |-> 0,
                               born |-> inserts + 1,
                               only_joins |-> TRUE,
                               joined |-> {},
                               interrupted |-> FALSE]) @@ schedule
        /\ sqlite_sequence' = id
        /\ inserts' = inserts + 1
        /\ tasks' = [tasks EXCEPT ![s] = [t EXCEPT !.pc = "add_id"]]
        /\ UNCHANGED <<now, messages, next_message, sleepers, reset_at,
                       message_sending_enabled, events,
                       faults, lab, pt>>

\* SELECT id ... again; row_id = row_id_result[0][0], or ValueError and return
AddId(s) ==
    LET t == tasks[s]
        found == Matching(t.server_name, t.time_slot)
    IN  /\ t.pc = "add_id"
        /\ tasks' = [tasks EXCEPT ![s] =
              IF found = {}
              THEN Idle
              ELSE [t EXCEPT !.pc = "usm_select", !.row_id = Min(found),
                             !.born = schedule[Min(found)].born,
                             !.participants = <<>>]]
        /\ UNCHANGED <<now, schedule, sqlite_sequence, inserts, messages,
                       next_message, sleepers, reset_at,
                       message_sending_enabled, events,
                       faults, lab, pt>>

(***************************************************************************)
(* show_schedule, also awaited by add_server when messages are enabled     *)
(***************************************************************************)

ShowSchedule(channel) ==
    /\ Start([Idle EXCEPT !.kind = "show", !.pc = "show_select", !.ret = "loop",
                          !.channel = channel])
    /\ UNCHANGED <<now, schedule, sqlite_sequence, inserts, messages,
                   next_message, sleepers, reset_at, message_sending_enabled,
                       faults, lab, pt>>

\* SELECT id, server_name, time_slot, participants FROM schedule
ShowSelect(s) ==
    LET t == tasks[s]
        ids == SortedIds(DOMAIN schedule)
        records == [i \in 1..Len(ids) |->
                      [row_id |-> ids[i],
                       server_name |-> schedule[ids[i]].server_name,
                       time_slot |-> schedule[ids[i]].time_slot,
                       participants |->
                           get_participants_list(schedule[ids[i]].participants),
                       channel |-> t.channel]]
    IN  /\ t.pc = "show_select"
        /\ tasks' = [tasks EXCEPT ![s] =
              IF records = <<>> THEN Idle
              ELSE LoopCall([t EXCEPT !.todo = records, !.ret = "loop"])]
        /\ UNCHANGED <<now, schedule, sqlite_sequence, inserts, messages,
                       next_message, sleepers, reset_at,
                       message_sending_enabled, events,
                       faults, lab, pt>>

(***************************************************************************)
(* remove_server and reset_db                                              *)
(***************************************************************************)

RemoveServer(row_id) ==
    /\ Start([Idle EXCEPT !.kind = "remove", !.pc = "remove_select",
                          !.row_id = row_id])
    /\ UNCHANGED <<now, schedule, sqlite_sequence, inserts, messages,
                   next_message, sleepers, reset_at, message_sending_enabled,
                       faults, lab, pt>>

\* SELECT message_id, channel_id ...; `if not result: return`
RemoveSelect(s) ==
    LET t == tasks[s]
    IN  /\ t.pc = "remove_select"
        /\ tasks' = [tasks EXCEPT ![s] =
              IF t.row_id \notin DOMAIN schedule
              THEN Idle
              ELSE [t EXCEPT !.pc = IF schedule[t.row_id].message_id # 0
                                    THEN "remove_message" ELSE "remove_delete",
                             !.message_id = schedule[t.row_id].message_id,
                             !.channel = schedule[t.row_id].channel_id]]
        /\ UNCHANGED <<now, schedule, sqlite_sequence, inserts, messages,
                       next_message, sleepers, reset_at,
                       message_sending_enabled, events,
                       faults, lab, pt>>

\* fetch_message and message.delete(); NotFound is printed and passed over
RemoveMessage(s) ==
    LET t == tasks[s]
    IN  /\ t.pc = "remove_message"
        /\ messages' = IF Fetched(t)
                       THEN [m \in DOMAIN messages \ {t.message_id} |-> messages[m]]
                       ELSE messages
        /\ tasks' = [tasks EXCEPT ![s] = [t EXCEPT !.pc = "remove_delete"]]
        /\ UNCHANGED <<now, schedule, sqlite_sequence, inserts, next_message,
                       sleepers, reset_at, message_sending_enabled, events,
                       faults, lab, pt>>

\* a variant in which the exception ends the command before the DELETE
RemoveMessageAborts(s) ==
    LET t == tasks[s]
    IN  /\ t.pc = "remove_message"
        /\ faults < MaxFaults
        /\ faults' = faults + 1
        /\ tasks' = [tasks EXCEPT ![s] = Idle]
        /\ UNCHANGED <<now, schedule, sqlite_sequence, inserts, messages,
                       next_message, sleepers, reset_at,
                       message_sending_enabled, events, lab, pt>>

\* get_channel returns None, or fetch_message or message.delete() raises
\* another exception: it is printed and passed over
RemoveMessageFails(s) ==
    LET t == tasks[s]
    IN  /\ t.pc = "remove_message"
        /\ faults < MaxFaults
        /\ faults' = faults + 1
        /\ tasks' = [tasks EXCEPT ![s] = [t EXCEPT !.pc = "remove_delete"]]
        /\ UNCHANGED <<now, schedule, sqlite_sequence, inserts, messages,
                       next_message, sleepers, reset_at,
                       message_sending_enabled, events, lab, pt>>

\* DELETE FROM schedule WHERE id=?
RemoveDelete(s) ==
    LET t == tasks[s]
    IN  /\ t.pc = "remove_delete"
        /\ schedule' = [id \in DOMAIN schedule \ {t.row_id} |-> schedule[id]]
        /\ tasks' = [tasks EXCEPT ![s] = Idle]
        /\ UNCHANGED <<now, sqlite_sequence, inserts, messages, next_message,
                       sleepers, reset_at, message_sending_enabled, events,
                       faults, lab, pt>>

ResetDb ==
    /\ Start([Idle EXCEPT !.kind = "reset_db", !.pc = "reset_db_rows"])
    /\ UNCHANGED <<now, schedule, sqlite_sequence, inserts, messages,
                   next_message, sleepers, reset_at, message_sending_enabled,
                       faults, lab, pt>>

\* DELETE FROM schedule
ResetDbRows(s) ==
    LET t == tasks[s]
    IN  /\ t.pc = "reset_db_rows"
        /\ schedule' = [id \in {} |-> 0]
        /\ tasks' = [tasks EXCEPT ![s] = [t EXCEPT !.pc = "reset_db_sequence"]]
        /\ UNCHANGED <<now, sqlite_sequence, inserts, messages, next_message,
                       sleepers, reset_at, message_sending_enabled, events,
                       faults, lab, pt>>

\* DELETE FROM sqlite_sequence WHERE name='schedule'
ResetDbSequence(s) ==
    LET t == tasks[s]
    IN  /\ t.pc = "reset_db_sequence"
        /\ sqlite_sequence' = 0
        /\ tasks' = [tasks EXCEPT ![s] = Idle]
        /\ UNCHANGED <<now, schedule, inserts, messages, next_message,
                       sleepers, reset_at, message_sending_enabled, events,
                       faults, lab, pt>>

(***************************************************************************)
(* schedule_reset_task: the daily loop and the reset_schedule command      *)
(***************************************************************************)

ResetTask == [Idle EXCEPT !.kind = "reset", !.pc = "reset_clear", !.ret = "loop",
                          !.reset_flag = TRUE]

\* !reset_schedule awaits schedule_reset_task()
ResetSchedule ==
    /\ Start(ResetTask)
    /\ UNCHANGED <<now, schedule, sqlite_sequence, inserts, messages,
                   next_message, sleepers, reset_at, message_sending_enabled,
                       faults, lab, pt>>

\* the loop's run at 00:00, after the expiries due at that instant: the
\* loop's time(0, 0) is an hour or two later on the local clock than the
\* 00:00 the clock of the model stops at
DailyReset ==
    /\ reset_at <= now
    /\ \A sl \in sleepers : sl.wake > now
    /\ \A s \in TaskSlots : tasks[s].kind # "expiry"
    /\ HasFree
    /\ tasks' = [tasks EXCEPT ![FreeSlot] = ResetTask]
    /\ reset_at' = reset_at + DayMinutes
    /\ UNCHANGED <<now, schedule, sqlite_sequence, inserts, messages,
                   next_message, sleepers, message_sending_enabled, events,
                       faults, lab, pt>>

\* a variant of the clear with a WHERE clause: only the entries whose end
\* time has passed are cleared
ResetClearEndedOnly(s) ==
    LET t == tasks[s]
        ended == { id \in DOMAIN schedule : now >= end_time(schedule[id].time_slot, now) }
    IN  /\ t.pc = "reset_clear"
        /\ schedule' = NoteOther([id \in DOMAIN schedule |->
                                    IF id \in ended
                                    THEN [schedule[id] EXCEPT !.participants = <<>>]
                                    ELSE schedule[id]],
                                 DOMAIN schedule)
        /\ tasks' = NoteCleared([tasks EXCEPT ![s] = [t EXCEPT !.pc = "reset_select"]],
                                ended)
        /\ UNCHANGED <<now, sqlite_sequence, inserts, messages, next_message,
                       sleepers, reset_at, message_sending_enabled, events,
                       faults, lab, pt>>

\* UPDATE schedule SET participants=''
ResetClear(s) ==
    LET t == tasks[s]
    IN  /\ t.pc = "reset_clear"
        /\ schedule' = NoteOther([id \in DOMAIN schedule |->
                                    [schedule[id] EXCEPT !.participants = <<>>]],
                                 DOMAIN schedule)
        /\ tasks' = NoteCleared([tasks EXCEPT ![s] = [t EXCEPT !.pc = "reset_select"]],
                                DOMAIN schedule)
        /\ UNCHANGED <<now, sqlite_sequence, inserts, messages, next_message,
                       sleepers, reset_at, message_sending_enabled, events,
                       faults, lab, pt>>

\* SELECT id, server_name, time_slot, channel_id FROM schedule
ResetSelect(s) ==
    LET t == tasks[s]
        ids == SortedIds(DOMAIN schedule)
        records == [i \in 1..Len(ids) |->
                      [row_id |-> ids[i],
                       server_name |-> schedule[ids[i]].server_name,
                       time_slot |-> schedule[ids[i]].time_slot,
                       participants |-> <<>>,
                       channel |-> schedule[ids[i]].channel_id]]
    IN  /\ t.pc = "reset_select"
        /\ tasks' = [tasks EXCEPT ![s] =
              IF records = <<>> THEN Idle
              ELSE LoopCall([t EXCEPT !.todo = records])]
        /\ UNCHANGED <<now, schedule, sqlite_sequence, inserts, messages,
                       next_message, sleepers, reset_at,
                       message_sending_enabled, events,
                       faults, lab, pt>>

(***************************************************************************)
(* schedule_event_end                                                      *)
(***************************************************************************)

\* asyncio.sleep(delay) returns, or delay <= 0 and there was no sleep; stale
\* notes that the entry the timer was armed for is gone by then
Wake(sl) ==
    /\ sl \in sleepers
    /\ sl.wake <= now
    /\ HasFree
    /\ sleepers' = sleepers \ {sl}
    /\ tasks' = [tasks EXCEPT ![FreeSlot] =
          [Idle EXCEPT !.kind = "expiry", !.pc = "expire_write", !.ret = "done",
                       !.row_id = sl.row_id, !.born = sl.born,
                       !.stale = ~EntryLive(sl.row_id, sl.born),
                       !.channel = sl.channel_id,
                       !.server_name = sl.server_name,
                       !.time_slot = sl.time_slot]]
    /\ UNCHANGED <<now, schedule, sqlite_sequence, inserts, messages,
                   next_message, reset_at, message_sending_enabled, events,
                       faults, lab, pt>>

\* UPDATE schedule SET participants='' WHERE id=?
ExpireWrite(s) ==
    LET t == tasks[s]
    IN  /\ t.pc = "expire_write"
        /\ schedule' = IF t.row_id \in DOMAIN schedule
                       THEN NoteOther([schedule EXCEPT ![t.row_id].participants = <<>>],
                                      {t.row_id})
                       ELSE schedule
        /\ tasks' = NoteCleared([tasks EXCEPT ![s] =
                                    [t EXCEPT !.pc = "usm_select", !.participants = <<>>]],
                                {t.row_id} \cap DOMAIN schedule)
        /\ UNCHANGED <<now, sqlite_sequence, inserts, messages, next_message,
                       sleepers, reset_at, message_sending_enabled, events,
                       faults, lab, pt>>

(***************************************************************************)
(* The message command and the clock                                       *)
(***************************************************************************)

\* !message on / !message off
Message(mode) ==
    /\ events < MaxEvents
    /\ message_sending_enabled' = mode
    /\ events' = events + 1
    /\ UNCHANGED <<now, schedule, sqlite_sequence, inserts, messages,
                   next_message, tasks, sleepers, reset_at,
                       faults, lab, pt>>

\* a message of the bot is deleted in Discord: fetch_message raises NotFound
\* from then on
DeleteMessage(m) ==
    /\ m \in DOMAIN messages
    /\ events < MaxEvents
    /\ events' = events + 1
    /\ messages' = [k \in DOMAIN messages \ {m} |-> messages[k]]
    /\ UNCHANGED <<now, schedule, sqlite_sequence, inserts, next_message,
                   tasks, sleepers, reset_at, message_sending_enabled,
                   faults, lab, pt>>

\* the process stops and starts again: the coroutines and the sleeping
\* schedule_event_end tasks are gone, the flag is False again, the table and
\* the messages stay.  on_ready registers the views of the stored rows and
\* starts the reset loop, whose next run is the next 00:00; it creates no
\* schedule_event_end task.  interrupted notes the rows that a coroutine was
\* working on when the process stopped
Restart ==
    /\ events < MaxEvents
    /\ events' = events + 1
    /\ tasks' = [s \in TaskSlots |-> Idle]
    /\ sleepers' = {}
    /\ message_sending_enabled' = FALSE
    /\ reset_at' = (now \div DayMinutes + 1) * DayMinutes
    /\ schedule' = [id \in DOMAIN schedule |->
                       IF \E s \in InFlight : tasks[s].row_id = id \/ tasks[s].kind = "reset"
                       THEN [schedule[id] EXCEPT !.interrupted = TRUE]
                       ELSE schedule[id]]
    /\ UNCHANGED <<now, sqlite_sequence, inserts, messages,
                   next_message, faults, lab, pt>>

\* time passes while nothing is in flight and no timer is due
Tick ==
    /\ InFlight = {}
    /\ \A sl \in sleepers : sl.wake > now
    /\ reset_at > now
    /\ now < MaxDay * DayMinutes
    /\ now' = now + TickMinutes
    /\ UNCHANGED <<schedule, sqlite_sequence, inserts, messages, next_message,
                   tasks, sleepers, reset_at, message_sending_enabled, events,
                       faults, lab, pt>>

(***************************************************************************)
(* Specifications                                                          *)
(***************************************************************************)

Init ==
    /\ now = 0
    /\ schedule = [id \in {} |-> 0]
    /\ sqlite_sequence = 0
    /\ inserts = 0
    /\ messages = [m \in {} |-> 0]
    /\ next_message = 0
    /\ tasks = [s \in TaskSlots |-> Idle]
    /\ sleepers = {}
    /\ reset_at = DayMinutes
    /\ message_sending_enabled = FALSE
    /\ events = 0
    /\ faults = 0
    /\ lab = LabIdle
    /\ pt = PtIdle

Step(s) ==
    \/ UsmSelect(s)
    \/ UsmPresent(s)
    \/ UsmPresentFails(s)
    \/ UsmSetRef(s)
    \/ JoinRead(s)
    \/ LeaveRead(s)
    \/ DelayRead(s)
    \/ CallbackWrite(s)
    \/ AddCheck(s)
    \/ AddInsert(s)
    \/ AddId(s)
    \/ ShowSelect(s)
    \/ RemoveSelect(s)
    \/ RemoveMessage(s)
    \/ RemoveMessageFails(s)
    \/ RemoveDelete(s)
    \/ ResetDbRows(s)
    \/ ResetDbSequence(s)
    \/ ResetClear(s)
    \/ ResetSelect(s)
    \/ ExpireWrite(s)

SysNext ==
    \/ \E m \in 1..next_message, u \in Users, kind \in {"join", "leave", "delay"} :
          Click(m, u, kind)
    \/ \E server_name \in ServerNames, time_slot \in Slots, channel \in Channels :
          AddServer(server_name, time_slot, channel)
    \/ \E channel \in Channels : ShowSchedule(channel)
    \/ \E row_id \in RowIds : RemoveServer(row_id)
    \/ ResetDb
    \/ ResetSchedule
    \/ DailyReset
    \/ \E sl \in sleepers : Wake(sl)
    \/ \E mode \in BOOLEAN : Message(mode)
    \/ \E m \in 1..next_message : DeleteMessage(m)
    \/ Restart
    \/ Tick
    \/ \E s \in TaskSlots : Step(s)

Next == SysNext

\* the system
Spec == Init /\ [][Next]_vars

\* one button callback at a time on one row
SpecRoster == Init /\ [][RosterNext]_vars

\* parse_time_slot alone
SpecParse == Init /\ [][ParseNext]_vars

(***************************************************************************)
(* Claims                                                                  *)
(***************************************************************************)

Callbacks == {"join", "leave", "delay"}

\* the roster of a row, as the code reads it
RosterOf(id) == get_participants_list(schedule[id].participants)

\* no button callback is in flight on the row
Settled(id) ==
    \A s \in TaskSlots : tasks[s].kind \in Callbacks => tasks[s].row_id # id

\* the task in slot s takes the step
Steps(s) == tasks'[s].pc # tasks[s].pc /\ events' = events

\* C1: when only join callbacks have run on an entry and all of them have run
\* to their end, the stored roster holds every user that joined (no lost
\* update), whatever the order of their reads and writes.
NoLostUpdates ==
    \A id \in DOMAIN schedule :
        (schedule[id].only_joins /\ Settled(id)) =>
            \A user_id \in schedule[id].joined : Present(RosterOf(id), user_id)

\* C2: no two rows of the table share (server_name, time_slot), also when
\* two add_server commands for the same pair are in flight together.
UniqueServerSlot ==
    \A i, j \in DOMAIN schedule :
        (schedule[i].server_name = schedule[j].server_name
            /\ schedule[i].time_slot = schedule[j].time_slot) => i = j

\* C3: after any sequence of join, leave and delay callbacks the stored
\* roster holds at most one participant per user id.
RosterUniqueByUserId == UniqueByUserId(LabAfter)

\* C4: a join run alone appends one participant for the user, tier 0, at the
\* end when no participant has that user id, and changes nothing when one
\* has; presence is equality of the user id field.
JoinByUserId ==
    lab.op = "join" =>
        IF Present(LabBefore, lab.user.id)
        THEN lab.passed = LabBefore
        ELSE /\ Len(lab.passed) = Len(LabBefore) + 1
             /\ SubSeq(lab.passed, 1, Len(LabBefore)) = LabBefore
             /\ UserIdOf(lab.passed[Len(lab.passed)]) = lab.user.id
             /\ TierOf(lab.passed[Len(lab.passed)]) = 0

\* C5: leave removes exactly the participants whose user id is the user's and
\* keeps the others in their order; with the user absent nothing changes.
LeaveByUserId ==
    lab.op = "leave" =>
        LabAfter = SelectSeq(LabBefore, LAMBDA p : UserIdOf(p) # lab.user.id)

\* C6: a delay by a user who is no participant of the roster gets the error
\* reply; nothing is written and no message update follows.
DelayAbsentReported ==
    (lab.op = "delay" /\ ~Present(LabBefore, lab.user.id)) =>
        /\ lab.response = "error"
        /\ ~lab.wrote
        /\ ~lab.reconciled
        /\ lab.stored = lab.before

\* C7: a delay by a participant advances that participant's tier by
\* (tier + 1) mod 3 and keeps order, user ids, names and the other
\* participants; three in a row give back the tiers they started from.
DelayCyclesTier ==
    (lab.op = "delay" /\ Present(LabBefore, lab.user.id)) =>
        /\ lab.response = "defer"
        /\ Len(LabAfter) = Len(LabBefore)
        /\ \A i \in 1..Len(LabBefore) :
              IF UserIdOf(LabBefore[i]) = lab.user.id
              THEN /\ UserIdOf(LabAfter[i]) = lab.user.id
                   /\ NameOf(LabAfter[i]) = NameOf(LabBefore[i])
                   /\ TierOf(LabAfter[i]) = (TierOf(LabBefore[i]) + 1) % 3
              ELSE LabAfter[i] = LabBefore[i]
        /\ lab.streak = 3 =>
              LET base == get_participants_list(lab.base)
              IN  \A i \in 1..Len(base) : TierOf(LabAfter[i]) = TierOf(base[i])

\* C8: parse_time_slot of a well-formed slot gives end strictly after start,
\* and an end time of day before the start time of day gives the end on the
\* day after the start's day.
ParseEndAfterStart ==
    pt.done =>
        /\ pt.end > pt.start
        /\ AtTime(0, pt.time_slot[3], pt.time_slot[4])
              < AtTime(0, pt.time_slot[1], pt.time_slot[2]) =>
                 pt.end = AtTime(DateOf(pt.start) + 1, pt.time_slot[3], pt.time_slot[4])

\* C9: the expiry of an entry that is still there empties its stored roster,
\* and the message update that follows shows the disabled EventEndedButton
\* in place of the three buttons.
ExpiryShowsEnded ==
    [][\A s \in TaskSlots :
          (tasks[s].kind = "expiry" /\ ~tasks[s].stale /\ Steps(s)
              /\ EntryLive(tasks[s].row_id, tasks[s].born)) =>
             /\ tasks[s].pc = "expire_write" =>
                   schedule'[tasks[s].row_id].participants = <<>>
             /\ tasks[s].pc = "usm_present" =>
                   /\ messages'[PresentTarget(tasks[s])].ended
                   /\ messages'[PresentTarget(tasks[s])].participants = <<>>]_vars

\* C10: the fire of a timer whose entry was removed before it fired changes
\* no row, sends no message and edits no message.
StaleExpiryIsNoOp ==
    [][\A s \in TaskSlots :
          (tasks[s].kind = "expiry" /\ tasks[s].stale /\ Steps(s)) =>
             /\ schedule' = schedule
             /\ messages' = messages]_vars

\* C11: the clear of a daily reset, run by the loop or by reset_schedule,
\* leaves every stored roster empty whatever the entries' end times, the
\* clear of an expiry leaves its row's roster empty, and no later step of a
\* reset or of an expiry puts a participant into a roster: alone, or one
\* after the other on the same entry, they leave the rosters empty
DailyResetClears ==
    [][\A s \in TaskSlots :
          (tasks[s].kind \in {"reset", "expiry"} /\ Steps(s)) =>
             /\ tasks[s].pc = "reset_clear" =>
                   \A id \in DOMAIN schedule' : schedule'[id].participants = <<>>
             /\ (tasks[s].pc = "expire_write" /\ tasks[s].row_id \in DOMAIN schedule') =>
                   schedule'[tasks[s].row_id].participants = <<>>
             /\ \A id \in DOMAIN schedule' :
                   schedule'[id].participants # <<>> =>
                      /\ id \in DOMAIN schedule
                      /\ schedule[id].participants = schedule'[id].participants]_vars

\* a reset has cleared a roster that its message still shows with a participant,
\* before the end time of the entry
DailyResetCleared ==
    \E s \in TaskSlots, id \in DOMAIN schedule :
        /\ tasks[s].kind = "reset" /\ tasks[s].pc = "reset_select"
        /\ schedule[id].participants = <<>>
        /\ now < end_time(schedule[id].time_slot, now)
        /\ schedule[id].message_id \in DOMAIN messages
        /\ messages[schedule[id].message_id].participants # <<>>

\* C12: when the process starts again every entry in the store gets its
\* expiry: a schedule_event_end task for the entry is pending after the
\* start, due at the end time of the stored time slot at the latest
ExpiryRearmedAtStart ==
    [][Restart =>
          \A id \in DOMAIN schedule' :
             \E sl \in sleepers' :
                /\ sl.row_id = id
                /\ sl.born = schedule'[id].born
                /\ sl.wake <= end_time(schedule'[id].time_slot, now')]_vars

\* C13: a call of update_schedule_message sends a new message for an entry
\* of the store only when the entry's message_id is NULL or the message it
\* names no longer exists, whatever other calls for the entry are in flight
OneArtifactPerEntry ==
    [][\A s \in TaskSlots :
          (/\ tasks[s].pc = "usm_present"
           /\ Steps(s)
           /\ next_message' # next_message
           /\ tasks[s].row_id \in DOMAIN schedule) =>
             \/ schedule[tasks[s].row_id].message_id = 0
             \/ schedule[tasks[s].row_id].message_id \notin DOMAIN messages]_vars

\* C14: a button callback for a row id that is not in the table ends at its
\* SELECT with a report to the user, and no step of it changes a row or
\* sends or edits a message
CallbackOnRemovedEntry ==
    [][\A s \in TaskSlots :
          (/\ tasks[s].kind \in Callbacks
           /\ Steps(s)
           /\ tasks[s].row_id \notin DOMAIN schedule) =>
             /\ schedule' = schedule
             /\ messages' = messages
             /\ tasks[s].pc = "read" => tasks'[s] = Idle]_vars

\* C15: remove_server on a row of the table goes on to its DELETE whatever
\* happens to the message (deleted, already gone, channel unavailable, the
\* deletion failing), and its DELETE leaves the row absent
RemoveAlwaysDeletes ==
    [][\A s \in TaskSlots :
          (tasks[s].kind = "remove" /\ Steps(s)) =>
             /\ (tasks[s].pc = "remove_select" /\ tasks[s].row_id \in DOMAIN schedule) =>
                   tasks'[s].pc \in {"remove_message", "remove_delete"}
             /\ tasks[s].pc = "remove_message" =>
                   tasks'[s].pc = "remove_delete"
             /\ tasks[s].pc = "remove_delete" =>
                   /\ tasks[s].row_id \notin DOMAIN schedule'
                   /\ tasks'[s] = Idle]_vars

\* a remove_server whose deletion of the message failed is about to delete
\* the row: the message is still there
RemovePastFailedDeletion ==
    \E s \in TaskSlots :
        /\ tasks[s].kind = "remove" /\ tasks[s].pc = "remove_delete"
        /\ tasks[s].row_id \in DOMAIN schedule
        /\ tasks[s].message_id \in DOMAIN messages
        /\ faults > 0

\* C16: the flag changes what the commands do to the table and to the set of
\* messages in one place only, the show_schedule that add_server awaits when
\* the flag is on (every other use guards a ctx.send).  Two runs that differ
\* in the flag alone reach the same table and the same messages per entry
\* when the steps of that show_schedule leave the table and the set of
\* messages as they are
FlagGatesNotificationOnly ==
    [][\A s \in TaskSlots :
          (tasks[s].kind = "add" /\ tasks[s].ret = "loop" /\ Steps(s)) =>
             /\ schedule' = schedule
             /\ DOMAIN messages' = DOMAIN messages]_vars

\* C17: in the loop of schedule_reset_task and of show_schedule a failure of
\* a message call for one row never ends the loop: while rows are left, a
\* step of the loop is followed by the rest of the call or by the next row
LoopSurvivesFailure ==
    [][\A s \in TaskSlots :
          (tasks[s].ret = "loop" /\ tasks[s].todo # <<>> /\ Steps(s)) =>
             tasks'[s].kind # "idle"]_vars

\* C18: a callback that read the roster before a clear of its row (by an
\* expiry or by a daily reset) and writes after it does not bring back what
\* the clear removed: the roster it writes holds nobody but the user of the
\* callback, and that only when the callback is a join
ClearNotUndone ==
    [][\A s \in TaskSlots :
          (/\ tasks[s].kind \in Callbacks /\ tasks[s].pc = "write"
           /\ Steps(s)
           /\ tasks[s].cleared
           /\ tasks[s].row_id \in DOMAIN schedule') =>
             LET roster == get_participants_list(schedule'[tasks[s].row_id].participants)
             IN  \A i \in 1..Len(roster) :
                    /\ UserIdOf(roster[i]) = tasks[s].user.id
                    /\ tasks[s].kind = "join"]_vars

\* C19: a schedule_event_end task whose row id now holds another entry than
\* the one it was created for (the id was given out again) neither changes
\* the roster of that entry nor edits or replaces its message
ExpiryOnlyItsEntry ==
    [][\A s \in TaskSlots :
          (/\ tasks[s].kind = "expiry"
           /\ Steps(s)
           /\ tasks[s].row_id \in DOMAIN schedule
           /\ schedule[tasks[s].row_id].born # tasks[s].born) =>
             /\ tasks[s].row_id \in DOMAIN schedule'
             /\ schedule'[tasks[s].row_id].participants =
                   schedule[tasks[s].row_id].participants
             /\ messages' = messages]_vars

\* C20: when no coroutine is in flight, no timer is due, no message call has
\* failed and no work on the entry was cut off by a restart, the participants
\* an entry's message shows are the participants of its stored roster
DisplayConverges ==
    (InFlight = {} /\ faults = 0 /\ reset_at > now) =>
        \A id \in DOMAIN schedule :
           (/\ ~schedule[id].interrupted
            /\ schedule[id].message_id \in DOMAIN messages
            /\ \A sl \in sleepers : sl.row_id = id => sl.wake > now) =>
              participants_display(messages[schedule[id].message_id].participants)
                 = participants_display(RosterOf(id))

====
